---- MODULE Spec2Model ----
(***************************************************************************)
(* Multi-session streaming chat of LightBot: the session registry          *)
(* (src/src/hooks/useChatSessions.ts), the chat hook with its per-session  *)
(* message map (src/src/hooks/useChat.ts, second definition, lines         *)
(* 128-275) and the submit handler of the chat window                      *)
(* (src/src/components/ChatWindow.tsx), with the port events of useSidecar *)
(* (src/src/contexts/ClipContext.tsx, lines 40-103).                       *)
(*                                                                         *)
(* One useChat instance serves every session (App.tsx renders a single     *)
(* ChatWindow without a key).  Handlers run to completion; an invocation   *)
(* of sendMessage suspends at `await fetch` and at `await reader.read()`,  *)
(* and each continuation is a step of its own.  A render caused by a       *)
(* handler, and the sessionId effect that follows it, are part of the      *)
(* handler's step.                                                         *)
(***************************************************************************)
EXTENDS Integers, Sequences, FiniteSets, TLC

(* ------------------------------ bounds -------------------------------- *)

\* session ids ever generated by generateSessionId
MaxSessionIds == 2
\* sendMessage invocations that get past the port check, under Spec
MaxSends == 1
\* the same under WideSpec, where two invocations can be in flight together
MaxSendsWide == 2
\* the same under DeepSpec, where two streams can deliver chunks in turn
MaxSendsDeep == 3
\* chunks the response bodies deliver in a run
MaxChunks == 2
\* session ids ever generated under RegistrySpec, the registry on its own
MaxRegistryIds == 5

(* ----------------------------- constants ------------------------------ *)

\* TAB_COLORS.length
NumColors == 8

\* apiPort: null (0 is as falsy as null for `!apiPort`) or the sidecar's port
Ports == {0, 8000}

\* what the textarea holds after trim(): nothing, or a text (its code points)
Texts == {<<>>, <<"U+0068", "U+0069">>}

\* a response body, as the transport delivers it: the bytes 61 C3 A9 61 (an
\* ASCII letter, a two-byte UTF-8 character, a letter) in three chunks, the
\* first boundary splitting the character; longer bodies repeat the pattern
Body == << <<"61", "C3">>, <<"A9">>, <<"61">> >>

\* the value (Uint8Array) of the k-th read of a body
ChunkValue(k) == Body[((k - 1) % Len(Body)) + 1]

\* response.status of a response that is not ok
BadStatus == {"500"}

\* error.message of a rejected fetch or read that is not an abort
NetworkErrors == {"Load failed"}

\* ports the sidecar may come up on when the hook is followed from its mount
SidecarPorts == {8000, 8001}

\* the rejection of get_sidecar_status that the hook does not report
NotStarted == "Sidecar not started yet"

\* the payload of "sidecar-error" and the other rejection of get_sidecar_status
SidecarFailure == "Sidecar failed to start"

VARIABLES
    sessions,          \* useChatSessions: ChatSession[] (id, color)
    activeSessionId,   \* useChatSessions: id of the active session
    uuidCount,         \* session ids generated so far
    apiPort,           \* prop of useChat
    messagesMapRef,    \* useChat: Map<sessionId, Message[]>
    messages,          \* useChat: the message list state shown by the view
    isStreaming,       \* useChat: streaming flag
    error,             \* useChat: <<>> for null, <<text>> for a string
    abortControllerRef,\* useChat: 0 for null, else the invocation whose controller it holds
    invocations,       \* sendMessage invocations, in the order they started
    state,             \* useSidecar: isReady, error (<<>> for null), port (0 for null)
    setup,             \* useSidecar: where setupListeners stands, and the reply to invoke
    backend            \* the Rust side: status of the sidecar and its port

vars == <<sessions, activeSessionId, uuidCount, apiPort, messagesMapRef, messages,
          isStreaming, error, abortControllerRef, invocations, state, setup, backend>>

\* the sidecar hook, the prop it feeds and the process it watches
sidecarVars == <<apiPort, state, setup, backend>>

registryVars == <<sessions, activeSessionId, uuidCount>>

(* --------------------------- session registry ------------------------- *)

getColorForIndex(index) == index % NumColors

SessionIds(ss) == {ss[k].id : k \in 1..Len(ss)}

Filter(ss, id) == SelectSeq(ss, LAMBDA s : s.id # id)

\* prev.findIndex(s => s.id === id), 1-based; 0 stands for JavaScript's -1
findIndex(ss, id) ==
    IF \E k \in 1..Len(ss) : ss[k].id = id
    THEN CHOOSE k \in 1..Len(ss) : ss[k].id = id /\ \A j \in 1..(k - 1) : ss[j].id # id
    ELSE 0

(* ------------------------------ chat hook ----------------------------- *)

MapGet(map, sid) == IF sid \in DOMAIN map THEN map[sid] ELSE <<>>

MapSet(map, sid, list) ==
    [k \in DOMAIN map \cup {sid} |-> IF k = sid THEN list ELSE map[k]]

\* crypto.randomUUID() for the two messages of invocation i: fresh, distinct ids
UserId(i) == 2 * i - 1

AssistantId(i) == 2 * i

Message(id, role, content) == [id |-> id, role |-> role, content |-> content]

\* TextDecoder("utf-8").decode(value, { stream: true }): `pending` is the
\* incomplete sequence the decoder retains between calls
RECURSIVE Decode(_, _, _)
Decode(pending, bytes, out) ==
    IF bytes = <<>> THEN [text |-> out, pending |-> pending]
    ELSE LET b == Head(bytes)
             rest == Tail(bytes)
         IN  IF pending = <<>>
             THEN CASE b = "61" -> Decode(<<>>, rest, Append(out, "U+0061"))
                    [] b = "C3" -> Decode(<<"C3">>, rest, out)
                    [] OTHER    -> Decode(<<>>, rest, Append(out, "U+FFFD"))
             ELSE CASE b = "A9" -> Decode(<<>>, rest, Append(out, "U+00E9"))
                    [] b = "C3" -> Decode(<<"C3">>, rest, Append(out, "U+FFFD"))
                    [] OTHER    -> Decode(<<>>, rest, out \o <<"U+FFFD", "U+0061">>)

\* a slip in the concatenation: the chunk goes in front
AppendChunkPrepend(content, chunk) == chunk \o content

\* msg.content + chunk
AppendChunk(content, chunk) == content \o chunk

\* prev.map(msg => msg.id === assistantMessageId ? {...msg, content: msg.content + chunk} : msg)
MapChunk(prev, assistantMessageId, chunk) ==
    [k \in 1..Len(prev) |->
        IF prev[k].id = assistantMessageId
        THEN [prev[k] EXCEPT !.content = AppendChunk(prev[k].content, chunk)]
        ELSE prev[k]]

\* a slip in updateMessages: the result is stored under the session shown
updateMessagesUnderActive(sessionId, updated) ==
    /\ messagesMapRef' = MapSet(messagesMapRef, activeSessionId, updated)
    /\ messages' = updated

\* updateMessages: setMessages(prev => { updated = f(prev); map.set(sessionId, updated); return updated })
\* where prev is the hook's one message list state and sessionId the id the
\* calling closure was created with; `updated` is f(messages)
updateMessages(sessionId, updated) ==
    /\ messagesMapRef' = MapSet(messagesMapRef, sessionId, updated)
    /\ messages' = updated

\* the effect on [sessionId]: runs after a render in which the prop changed
SessionEffect(newActive) ==
    messages' = IF newActive # activeSessionId
                THEN MapGet(messagesMapRef, newActive)
                ELSE messages

InFlight(r) == r.pc \in {"fetch", "read"}

RECURSIVE TotalChunks(_)
TotalChunks(invs) ==
    IF invs = <<>> THEN 0 ELSE Len(Head(invs).chunks) + TotalChunks(Tail(invs))

\* history kept with each invocation, `hist`. While it is in flight: Quiet
\* until something else happens, Switched once the active session has
\* changed, Disturbed once its session was cleared, stop was called or another
\* send started. Once it has ended: Disturbed if it failed, or when its
\* session is cleared or another send starts
Quiet == "quiet"

Switched == "switched"

Disturbed == "disturbed"

Worse(h, to) == IF h = Disturbed \/ to = Disturbed THEN Disturbed ELSE to

Mark(invs, to, sids) ==
    [k \in 1..Len(invs) |->
        IF invs[k].sessionId \in sids /\ (InFlight(invs[k]) \/ to = Disturbed)
        THEN [invs[k] EXCEPT !.hist = Worse(@, to)]
        ELSE invs[k]]

MarkAll(invs, to) == Mark(invs, to, 1..uuidCount)

MarkStop(invs) ==
    [k \in 1..Len(invs) |->
        IF InFlight(invs[k]) THEN [invs[k] EXCEPT !.hist = Disturbed] ELSE invs[k]]

MarkSwitch(invs, newActive) ==
    IF newActive # activeSessionId THEN MarkAll(invs, Switched) ELSE invs

(* ------------------------------- Init --------------------------------- *)

\* useSidecar's initial state
InitialState == [isReady |-> FALSE, error |-> <<>>, port |-> 0]

\* the state set after get_sidecar_status resolves and by the sidecar-ready listener
ReadyState(port) == [isReady |-> TRUE, error |-> <<>>, port |-> port]

\* the state set by the sidecar-error listener
ErrorState(payload) == [isReady |-> FALSE, error |-> <<payload>>, port |-> 0]

\* no reply to get_sidecar_status has arrived
NoReply == [ok |-> FALSE, port |-> 0, error |-> ""]

\* useChatSessions: one initial session with TAB_COLORS[0]; useChat: empty map;
\* useSidecar: set up, with the port known or not
Init ==
    /\ sessions = <<[id |-> 1, color |-> 0]>>
    /\ activeSessionId = 1
    /\ uuidCount = 1
    /\ apiPort \in Ports
    /\ messagesMapRef = <<>>
    /\ messages = <<>>
    /\ isStreaming = FALSE
    /\ error = <<>>
    /\ abortControllerRef = 0
    /\ invocations = <<>>
    /\ state = IF apiPort = 0 THEN InitialState ELSE ReadyState(apiPort)
    /\ setup = [pc |-> "done", reply |-> NoReply]
    /\ backend = [status |-> IF apiPort = 0 THEN "starting" ELSE "ready", port |-> apiPort]

(* ----------------------- session registry actions --------------------- *)

\* a slip in createSession: the colour of the last session is not skipped
NextColorNoSkip(ss) == getColorForIndex(Len(ss))

\* the colour createSession picks for the next session
NextColor(ss) ==
    LET lastColor == IF Len(ss) > 0 THEN ss[Len(ss)].color ELSE -1
        nextIndex == Len(ss)
        color     == getColorForIndex(nextIndex)
    IN  IF color = lastColor THEN getColorForIndex(nextIndex + 1) ELSE color

createSession(maxIds) ==
    /\ uuidCount < maxIds
    /\ LET newSession == [id |-> uuidCount + 1, color |-> NextColor(sessions)]
       IN  /\ sessions' = Append(sessions, newSession)
           /\ activeSessionId' = newSession.id
           /\ uuidCount' = uuidCount + 1
           /\ SessionEffect(newSession.id)
           /\ invocations' = MarkSwitch(invocations, newSession.id)
    /\ UNCHANGED <<sidecarVars, messagesMapRef, isStreaming, error, abortControllerRef>>

\* a slip in deleteSession: the fallback runs whether or not id is the active
\* session
DeleteResultAlwaysFallsBack(prev, active, id, fresh) ==
    LET newSessions == Filter(prev, id)
        index       == findIndex(prev, id)
        newIndex    == IF index > 1 THEN index - 1 ELSE 1
    IN  IF Len(newSessions) = 0
        THEN [sessions |-> <<[id |-> fresh, color |-> 0]>>, active |-> fresh]
        ELSE [sessions |-> newSessions, active |-> newSessions[newIndex].id]

\* a slip in deleteSession: the active session id is kept when its session
\* is deleted
DeleteResultKeepsActive(prev, active, id, fresh) ==
    LET newSessions == Filter(prev, id)
    IN  IF Len(newSessions) = 0
        THEN [sessions |-> <<[id |-> fresh, color |-> 0]>>, active |-> fresh]
        ELSE [sessions |-> newSessions, active |-> active]

\* a slip in deleteSession: the fallback is always the first session left
DeleteResultFallsToFirst(prev, active, id, fresh) ==
    LET newSessions == Filter(prev, id)
    IN  IF Len(newSessions) = 0
        THEN [sessions |-> <<[id |-> fresh, color |-> 0]>>, active |-> fresh]
        ELSE IF id = active
        THEN [sessions |-> newSessions, active |-> newSessions[1].id]
        ELSE [sessions |-> newSessions, active |-> active]

\* a slip in deleteSession: no replacement when the last session goes
DeleteResultNoReplacement(prev, active, id, fresh) ==
    LET newSessions == Filter(prev, id)
    IN  IF Len(newSessions) > 0 /\ id = active
        THEN LET index    == findIndex(prev, id)
                 newIndex == IF index > 1 THEN index - 1 ELSE 1
             IN  [sessions |-> newSessions, active |-> newSessions[newIndex].id]
        ELSE [sessions |-> newSessions, active |-> active]

\* the setSessions updater of deleteSession: the new list and the new active id
DeleteResult(prev, active, id, fresh) ==
    LET newSessions == Filter(prev, id)
    IN  IF Len(newSessions) = 0
        THEN [sessions |-> <<[id |-> fresh, color |-> 0]>>, active |-> fresh]
        ELSE IF id = active
        THEN LET index    == findIndex(prev, id)
                 newIndex == IF index > 1 THEN index - 1 ELSE 1
             IN  [sessions |-> newSessions, active |-> newSessions[newIndex].id]
        ELSE [sessions |-> newSessions, active |-> active]

deleteSession(id, maxIds) ==
    /\ Len(Filter(sessions, id)) = 0 => uuidCount < maxIds
    /\ LET r == DeleteResult(sessions, activeSessionId, id, uuidCount + 1)
       IN  /\ sessions' = r.sessions
           /\ activeSessionId' = r.active
           /\ uuidCount' = IF Len(Filter(sessions, id)) = 0 THEN uuidCount + 1 ELSE uuidCount
           /\ SessionEffect(r.active)
           /\ invocations' = MarkSwitch(invocations, r.active)
    /\ UNCHANGED <<sidecarVars, messagesMapRef, isStreaming, error, abortControllerRef>>

\* a slip in switchSession: the list shown is saved as the log of the session
\* that is left
switchSessionSavesView(id) ==
    /\ activeSessionId' = id
    /\ SessionEffect(id)
    /\ messagesMapRef' = MapSet(messagesMapRef, activeSessionId, messages)
    /\ invocations' = MarkSwitch(invocations, id)
    /\ UNCHANGED <<sessions, uuidCount, sidecarVars, isStreaming, error, abortControllerRef>>

switchSession(id) ==
    /\ activeSessionId' = id
    /\ SessionEffect(id)
    /\ invocations' = MarkSwitch(invocations, id)
    /\ UNCHANGED <<sessions, uuidCount, sidecarVars, messagesMapRef, isStreaming, error,
                   abortControllerRef>>

(* --------------------------- chat hook actions ------------------------ *)

\* the finally block of sendMessage; pc keeps how the invocation ended:
\* "ok", "httpError", "networkError" or "abort"
Finally(i, outcome) ==
    /\ isStreaming' = FALSE
    /\ abortControllerRef' = 0
    /\ invocations' = [invocations EXCEPT
                          ![i].pc = outcome,
                          ![i].pending = <<>>,
                          ![i].hist = IF outcome = "ok" THEN @ ELSE Disturbed]

\* a slip in the catch block: every error is treated like an abort
CatchSwallow(name, message) == error

\* a slip in the catch block: the AbortError is reported like any other
CatchEvery(name, message) == <<message>>

\* the catch block: an Error that is not an AbortError sets the error field
Catch(name, message) == IF name # "AbortError" THEN <<message>> ELSE error

HttpErrorMessage(status) == "HTTP error! status: " \o status

NewInvocation(sid, content) ==
    [sessionId |-> sid, content |-> content, pc |-> "fetch", aborted |-> FALSE,
     request |-> [message |-> content, session_id |-> sid],
     pending |-> <<>>, chunks |-> <<>>,
     hist |-> IF \A k \in 1..Len(invocations) : ~InFlight(invocations[k])
              THEN Quiet ELSE Disturbed]

\* a slip in sendMessage: the port is checked after the user message is added
sendMessageChecksPortLate(content, maxSends) ==
    /\ Len(invocations) < maxSends
    /\ LET i == Len(invocations) + 1
           userMessage == Message(UserId(i), "user", content)
       IN  /\ updateMessages(activeSessionId, Append(messages, userMessage))
           /\ IF apiPort = 0
              THEN /\ error' = <<"Sidecar not connected">>
                   /\ UNCHANGED <<isStreaming, abortControllerRef, invocations>>
              ELSE /\ isStreaming' = TRUE
                   /\ error' = <<>>
                   /\ abortControllerRef' = i
                   /\ invocations' = Append(MarkAll(invocations, Disturbed),
                                            NewInvocation(activeSessionId, content))
    /\ UNCHANGED <<registryVars, sidecarVars>>

\* sendMessage up to `await fetch(...)`
\* a slip in sendMessage: the placeholder is added together with the user
\* message, before the request
sendMessagePlaceholderEarly(content, maxSends) ==
    IF apiPort = 0
    THEN /\ error' = <<"Sidecar not connected">>
         /\ UNCHANGED <<registryVars, sidecarVars, messagesMapRef, messages, isStreaming,
                        abortControllerRef, invocations>>
    ELSE /\ Len(invocations) < maxSends
         /\ LET i == Len(invocations) + 1
                userMessage == Message(UserId(i), "user", content)
                assistantMessage == Message(AssistantId(i), "assistant", <<>>)
            IN  /\ updateMessages(activeSessionId,
                                  Append(messages, userMessage) \o <<assistantMessage>>)
                /\ isStreaming' = TRUE
                /\ error' = <<>>
                /\ abortControllerRef' = i
                /\ invocations' = Append(MarkAll(invocations, Disturbed),
                                         NewInvocation(activeSessionId, content))
         /\ UNCHANGED <<registryVars, sidecarVars>>

sendMessage(content, maxSends) ==
    IF apiPort = 0
    THEN /\ error' = <<"Sidecar not connected">>
         /\ UNCHANGED <<registryVars, sidecarVars, messagesMapRef, messages, isStreaming,
                        abortControllerRef, invocations>>
    ELSE /\ Len(invocations) < maxSends
         /\ LET i == Len(invocations) + 1
                userMessage == Message(UserId(i), "user", content)
            IN  /\ updateMessages(activeSessionId, Append(messages, userMessage))
                /\ isStreaming' = TRUE
                /\ error' = <<>>
                /\ abortControllerRef' = i
                /\ invocations' = Append(MarkAll(invocations, Disturbed),
                                         NewInvocation(activeSessionId, content))
         /\ UNCHANGED <<registryVars, sidecarVars>>

\* ChatWindow.handleSubmit: the one caller of sendMessage
handleSubmit(content, maxSends) ==
    IF content = <<>> \/ isStreaming
    THEN UNCHANGED vars
    ELSE sendMessage(content, maxSends)

\* a slip in the read loop: it goes on after the abort was caught
AwaitingAfterAbort(i, pc) ==
    /\ i \in 1..Len(invocations)
    /\ invocations[i].pc \in {pc, "abort"}

Awaiting(i, pc) ==
    /\ i \in 1..Len(invocations)
    /\ invocations[i].pc = pc
    /\ ~invocations[i].aborted

\* fetch resolves with response.ok: the placeholder is appended; the read
\* loop starts if the response has a body
ResponseOk(i, hasBody) ==
    /\ Awaiting(i, "fetch")
    /\ LET sid == invocations[i].sessionId
           assistantMessage == Message(AssistantId(i), "assistant", <<>>)
       IN  /\ updateMessages(sid, Append(messages, assistantMessage))
           /\ IF hasBody
              THEN /\ invocations' = [invocations EXCEPT ![i].pc = "read"]
                   /\ UNCHANGED <<isStreaming, abortControllerRef>>
              ELSE Finally(i, "ok")
    /\ UNCHANGED <<registryVars, sidecarVars, error>>

\* a slip in sendMessage: the status check stands before the try block, so
\* its throw reaches neither catch nor finally
ResponseNotOkEscapes(i, status) ==
    /\ Awaiting(i, "fetch")
    /\ invocations' = [invocations EXCEPT ![i].pc = "uncaught", ![i].hist = Disturbed]
    /\ UNCHANGED <<registryVars, sidecarVars, messagesMapRef, messages, isStreaming,
                   error, abortControllerRef>>

\* fetch resolves with a status that is not ok: throw, catch, finally
ResponseNotOk(i, status) ==
    /\ Awaiting(i, "fetch")
    /\ error' = Catch("Error", HttpErrorMessage(status))
    /\ Finally(i, "httpError")
    /\ UNCHANGED <<registryVars, sidecarVars, messagesMapRef, messages>>

\* a slip in the catch block: the unfinished assistant message is taken out
NetworkErrorRollsBack(i, message) ==
    /\ Awaiting(i, "fetch") \/ Awaiting(i, "read")
    /\ error' = Catch("TypeError", message)
    /\ Finally(i, "networkError")
    /\ updateMessages(invocations[i].sessionId,
                      SelectSeq(messages, LAMBDA m : m.id # AssistantId(i)))
    /\ UNCHANGED <<registryVars, sidecarVars>>

\* fetch or reader.read() rejects with a network error
NetworkError(i, message) ==
    /\ Awaiting(i, "fetch") \/ Awaiting(i, "read")
    /\ error' = Catch("TypeError", message)
    /\ Finally(i, "networkError")
    /\ UNCHANGED <<registryVars, sidecarVars, messagesMapRef, messages>>

\* reader.read() resolves with a value: decode it and append it
ReadChunk(i) ==
    /\ Awaiting(i, "read")
    /\ TotalChunks(invocations) < MaxChunks
    /\ LET sid == invocations[i].sessionId
           value == ChunkValue(Len(invocations[i].chunks) + 1)
           d   == Decode(invocations[i].pending, value, <<>>)
       IN  /\ updateMessages(sid, MapChunk(messages, AssistantId(i), d.text))
           /\ invocations' = [invocations EXCEPT
                                 ![i].pending = d.pending,
                                 ![i].chunks = Append(@, d.text)]
    /\ UNCHANGED <<registryVars, sidecarVars, isStreaming, error, abortControllerRef>>

\* reader.read() resolves with done
ReadDone(i) ==
    /\ Awaiting(i, "read")
    /\ Finally(i, "ok")
    /\ UNCHANGED <<registryVars, sidecarVars, messagesMapRef, messages, error>>

\* a slip in the catch block: an abort takes the unfinished message out
AbortObservedRollsBack(i) ==
    /\ i \in 1..Len(invocations)
    /\ InFlight(invocations[i])
    /\ invocations[i].aborted
    /\ error' = Catch("AbortError", "The operation was aborted.")
    /\ Finally(i, "abort")
    /\ updateMessages(invocations[i].sessionId,
                      SelectSeq(messages, LAMBDA m : m.id # AssistantId(i)))
    /\ UNCHANGED <<registryVars, sidecarVars>>

\* the pending fetch or read of an aborted invocation rejects with AbortError
AbortObserved(i) ==
    /\ i \in 1..Len(invocations)
    /\ InFlight(invocations[i])
    /\ invocations[i].aborted
    /\ error' = Catch("AbortError", "The operation was aborted.")
    /\ Finally(i, "abort")
    /\ UNCHANGED <<registryVars, sidecarVars, messagesMapRef, messages>>

\* abortControllerRef.current?.abort()
Abort(invs, ref) == IF ref = 0 THEN invs ELSE [invs EXCEPT ![ref].aborted = TRUE]

\* a slip in stopStreaming: it also resets the error
stopStreamingResetsError ==
    /\ invocations' = MarkStop(Abort(invocations, abortControllerRef))
    /\ isStreaming' = FALSE
    /\ error' = <<>>
    /\ UNCHANGED <<registryVars, sidecarVars, messagesMapRef, messages, abortControllerRef>>

stopStreaming ==
    /\ invocations' = MarkStop(Abort(invocations, abortControllerRef))
    /\ isStreaming' = FALSE
    /\ UNCHANGED <<registryVars, sidecarVars, messagesMapRef, messages, error,
                   abortControllerRef>>

\* a slip in clearMessages: a failed /chat/clear call is reported
clearMessagesReportsFailure(backendOk) ==
    /\ messages' = <<>>
    /\ messagesMapRef' = MapSet(messagesMapRef, activeSessionId, <<>>)
    /\ error' = IF apiPort # 0 /\ ~backendOk THEN <<"Load failed">> ELSE <<>>
    /\ invocations' = Mark(invocations, Disturbed, {activeSessionId})
    /\ UNCHANGED <<registryVars, sidecarVars, isStreaming, abortControllerRef>>

\* clearMessages; the /chat/clear call is made when a port is known and its
\* failure is ignored
clearMessages(backendOk) ==
    /\ messages' = <<>>
    /\ messagesMapRef' = MapSet(messagesMapRef, activeSessionId, <<>>)
    /\ error' = <<>>
    /\ invocations' = Mark(invocations, Disturbed, {activeSessionId})
    /\ UNCHANGED <<registryVars, sidecarVars, isStreaming, abortControllerRef>>

(* ------------------------------ sidecar ------------------------------- *)

\* what the sidecar hook does not touch
appVars == <<registryVars, messagesMapRef, messages, isStreaming, error,
             abortControllerRef, invocations>>

\* the listener of "sidecar-ready" is registered once listen() has returned
ReadyListener == setup.pc \in {"listenError", "done"}

\* the listener of "sidecar-error" is registered once its listen() has returned
ErrorListener == setup.pc = "done"

\* the Rust side answers get_sidecar_status: the port of the running sidecar,
\* or an error, which is "Sidecar not started yet" while it is starting
StatusReply ==
    CASE backend.status = "ready"    -> [ok |-> TRUE, port |-> backend.port, error |-> ""]
      [] backend.status = "starting" -> [ok |-> FALSE, port |-> 0, error |-> NotStarted]
      [] backend.status = "failed"   -> [ok |-> FALSE, port |-> 0, error |-> SidecarFailure]

\* the command get_sidecar_status is handled; its reply is on the way
getSidecarStatus ==
    /\ setup.pc = "invoke"
    /\ setup' = [pc |-> "reply", reply |-> StatusReply]
    /\ UNCHANGED <<apiPort, state, backend, appVars>>

\* the catch block of setupListeners
CatchStatus(s, e) == IF e # NotStarted THEN [s EXCEPT !.error = <<e>>] ELSE s

\* await invoke(...) settles: setState, or the catch block; then the first
\* listen() is called
invokeSettles ==
    /\ setup.pc = "reply"
    /\ state' = IF setup.reply.ok
                THEN ReadyState(setup.reply.port)
                ELSE CatchStatus(state, setup.reply.error)
    /\ apiPort' = state'.port
    /\ setup' = [setup EXCEPT !.pc = "listenReady"]
    /\ UNCHANGED <<backend, appVars>>

\* await listen("sidecar-ready", ...) returns
listenReady ==
    /\ setup.pc = "listenReady"
    /\ setup' = [setup EXCEPT !.pc = "listenError"]
    /\ UNCHANGED <<apiPort, state, backend, appVars>>

\* await listen("sidecar-error", ...) returns
listenError ==
    /\ setup.pc = "listenError"
    /\ setup' = [setup EXCEPT !.pc = "done"]
    /\ UNCHANGED <<apiPort, state, backend, appVars>>

\* the sidecar is healthy and Rust emits "sidecar-ready" with its port; the
\* hook's listener, if registered, sets the state, and the port becomes the
\* apiPort prop of the chat window; an event without a listener is lost
sidecarReady(port) ==
    /\ backend' = [status |-> "ready", port |-> port]
    /\ IF ReadyListener
       THEN /\ state' = ReadyState(port)
            /\ apiPort' = port
       ELSE UNCHANGED <<state, apiPort>>
    /\ UNCHANGED <<setup, appVars>>

\* a slip in the listener of "sidecar-error": only the error is set
sidecarErrorKeepsPort ==
    /\ backend' = [status |-> "failed", port |-> 0]
    /\ IF ErrorListener
       THEN /\ state' = [state EXCEPT !.error = <<SidecarFailure>>]
            /\ apiPort' = state'.port
       ELSE UNCHANGED <<state, apiPort>>
    /\ UNCHANGED <<setup, appVars>>

\* Rust emits "sidecar-error"; the hook's listener, if registered, sets the
\* state, and the port becomes null
sidecarError ==
    /\ backend' = [status |-> "failed", port |-> 0]
    /\ IF ErrorListener
       THEN /\ state' = ErrorState(SidecarFailure)
            /\ apiPort' = 0
       ELSE UNCHANGED <<state, apiPort>>
    /\ UNCHANGED <<setup, appVars>>

(* ------------------------------- Next --------------------------------- *)

\* the handlers of the session tabs
RegistryStep(maxIds) ==
    \/ createSession(maxIds)
    \/ \E id \in 1..uuidCount : deleteSession(id, maxIds)
    \/ \E id \in SessionIds(sessions) : switchSession(id)

\* the handlers of the chat window and the continuations of sendMessage
ChatStep(maxSends) ==
    \/ \E content \in Texts : handleSubmit(content, maxSends)
    \/ \E i \in 1..Len(invocations), hasBody \in BOOLEAN : ResponseOk(i, hasBody)
    \/ \E i \in 1..Len(invocations), status \in BadStatus : ResponseNotOk(i, status)
    \/ \E i \in 1..Len(invocations), message \in NetworkErrors : NetworkError(i, message)
    \/ \E i \in 1..Len(invocations) : ReadChunk(i)
    \/ \E i \in 1..Len(invocations) : ReadDone(i)
    \/ \E i \in 1..Len(invocations) : AbortObserved(i)
    \/ stopStreaming
    \/ \E backendOk \in BOOLEAN : clearMessages(backendOk)

Step(maxSends) == RegistryStep(MaxSessionIds) \/ ChatStep(maxSends)

Next == Step(MaxSends)

Spec == Init /\ [][Next]_vars

WideNext == Step(MaxSendsWide)

WideSpec == Init /\ [][WideNext]_vars

DeepNext == Step(MaxSendsDeep)

DeepSpec == Init /\ [][DeepNext]_vars

\* the chat window of one session while the sidecar comes and goes
PortNext ==
    \/ ChatStep(MaxSends)
    \/ \E port \in Ports \ {0} : sidecarReady(port)
    \/ sidecarError

PortSpec == Init /\ [][PortNext]_vars

\* the sidecar hook at its mount: nothing is known, get_sidecar_status has
\* been invoked, and the sidecar is starting, up or has failed
MountInit ==
    /\ sessions = <<[id |-> 1, color |-> 0]>>
    /\ activeSessionId = 1
    /\ uuidCount = 1
    /\ apiPort = 0
    /\ messagesMapRef = <<>>
    /\ messages = <<>>
    /\ isStreaming = FALSE
    /\ error = <<>>
    /\ abortControllerRef = 0
    /\ invocations = <<>>
    /\ state = InitialState
    /\ setup = [pc |-> "invoke", reply |-> NoReply]
    /\ backend \in {[status |-> "starting", port |-> 0], [status |-> "failed", port |-> 0]}
                    \cup {[status |-> "ready", port |-> port] : port \in SidecarPorts}

\* the hook's setup, the sidecar's events and the chat window of one session
SidecarNext ==
    \/ getSidecarStatus
    \/ invokeSettles
    \/ listenReady
    \/ listenError
    \/ \E port \in SidecarPorts : sidecarReady(port)
    \/ sidecarError
    \/ ChatStep(MaxSends)

SidecarSpec == MountInit /\ [][SidecarNext]_vars

\* the session registry on its own, with more sessions
RegistryNext == RegistryStep(MaxRegistryIds)

RegistrySpec == Init /\ [][RegistryNext]_vars

\* the chat window of one session with overlapping sends, where every
\* awaited promise of an invocation settles: fetch resolves or rejects, each
\* read() delivers a chunk, the end of the body or an error, and an abort
\* rejects the pending one
Continuation(i) ==
    \/ \E hasBody \in BOOLEAN : ResponseOk(i, hasBody)
    \/ \E status \in BadStatus : ResponseNotOk(i, status)
    \/ \E message \in NetworkErrors : NetworkError(i, message)
    \/ ReadChunk(i)
    \/ ReadDone(i)
    \/ AbortObserved(i)

LiveNext == ChatStep(MaxSendsWide)

LiveSpec ==
    /\ Init
    /\ [][LiveNext]_vars
    /\ \A i \in 1..MaxSendsWide : WF_vars(Continuation(i))

(* ------------------------- notation of the claims --------------------- *)

Invs == 1..Len(invocations)

Sid(i) == invocations[i].sessionId

\* a session's message log in the store
Log(sid) == MapGet(messagesMapRef, sid)

\* the session whose send created the message with this id
Origin(id) == invocations[(id + 1) \div 2].sessionId

IdsOf(list) == [k \in 1..Len(list) |-> list[k].id]

IsPrefix(s, t) == Len(s) <= Len(t) /\ \A k \in 1..Len(s) : s[k] = t[k]

RECURSIVE Concat(_)
Concat(chunks) == IF chunks = <<>> THEN <<>> ELSE Head(chunks) \o Concat(Tail(chunks))

UserMessageOf(i) == Message(UserId(i), "user", invocations[i].content)

\* the assistant message of invocation i with every chunk it has received
FullAssistantOf(i) == Message(AssistantId(i), "assistant", Concat(invocations[i].chunks))

Count(list, id) == Cardinality({k \in 1..Len(list) : list[k].id = id})

EndsWith(list, u, a) ==
    /\ Len(list) >= 2
    /\ list[Len(list) - 1] = u
    /\ list[Len(list)] = a

Streamed(i) == invocations[i].pc \in {"read", "ok"}

\* the step is a chunk of invocation i being applied
ChunkStep(i) ==
    /\ i \in Invs
    /\ Len(invocations'[i].chunks) = Len(invocations[i].chunks) + 1

(* -------------------------------- claims ------------------------------ *)

\* C1: every chunk received for a send started on session A is in A's log,
\* and in no other session's log, however the active session changes while
\* the stream is in flight (no clear, no stop, no other send).
C1_ChunksReachOriginLog ==
    \A i \in Invs :
        (Streamed(i) /\ invocations[i].hist \in {Quiet, Switched}) =>
            /\ \E k \in 1..Len(Log(Sid(i))) : Log(Sid(i))[k] = FullAssistantOf(i)
            /\ \A t \in DOMAIN messagesMapRef \ {Sid(i)} : Count(Log(t), AssistantId(i)) = 0

\* C2: the session list is never empty, and when the only session is deleted
\* the list holds exactly one session, with another id, and it is active.
C2_NeverEmpty ==
    /\ [](Len(sessions) >= 1)
    /\ [][(Len(sessions) = 1 /\ sessions[1].id \notin SessionIds(sessions')) =>
            /\ Len(sessions') = 1
            /\ sessions'[1].id # sessions[1].id
            /\ activeSessionId' = sessions'[1].id]_vars

\* the only session was deleted: its replacement has a later id and the
\* first colour, which createSession gives to no session after the first
C2_Witness ==
    /\ Len(sessions) = 1
    /\ sessions[1].id > 1
    /\ sessions[1].color = 0
    /\ activeSessionId = sessions[1].id

\* C3: a send on S1 whose stream completes after the user went to another
\* session and came back: S1's log ends with the user message and the
\* assistant message holding all chunks, and it is what the view shows.
C3_BackOnOriginSession ==
    \A i \in Invs :
        (/\ invocations[i].pc = "ok"
         /\ invocations[i].hist = Switched
         /\ activeSessionId = Sid(i)) =>
            /\ EndsWith(Log(Sid(i)), UserMessageOf(i), FullAssistantOf(i))
            /\ messages = Log(Sid(i))

\* C4: a send that completes normally, with the active session unchanged and
\* no clear, stop or other send in between: its session's log ends with the
\* user message and one assistant message whose content is c1 + ... + cN.
C4_ContentIsConcatenation ==
    \A i \in Invs :
        (invocations[i].pc = "ok" /\ invocations[i].hist = Quiet) =>
            /\ EndsWith(Log(Sid(i)), UserMessageOf(i), FullAssistantOf(i))
            /\ Count(Log(Sid(i)), AssistantId(i)) = 1
            /\ Count(Log(Sid(i)), UserId(i)) = 1

C4_Witness ==
    \E i \in Invs :
        /\ invocations[i].pc = "ok"
        /\ invocations[i].hist = Quiet
        /\ Len(invocations[i].chunks) >= 2
        /\ EndsWith(Log(Sid(i)), UserMessageOf(i), FullAssistantOf(i))

\* C5: every message in a session's log was created by a send that
\* originated in that session.
C5_LogsHoldOwnMessages ==
    \A sid \in DOMAIN messagesMapRef :
        \A k \in 1..Len(Log(sid)) : Origin(Log(sid)[k].id) = sid

\* C6: but for a clear of that session, every step leaves the ids of a
\* session's log a prefix of the ids of its next log.
C6_AppendOnly ==
    [][\A sid \in DOMAIN messagesMapRef :
          \/ activeSessionId = sid /\ \E backendOk \in BOOLEAN : clearMessages(backendOk)
          \/ IsPrefix(IdsOf(Log(sid)), IdsOf(MapGet(messagesMapRef', sid)))]_vars

\* C7: clearMessages on session S leaves every other session's log as it
\* was, and a chunk of a stream of another session T that arrives once S is
\* cleared is appended to T's assistant message.
C7_ClearLeavesOtherStreams ==
    [][/\ (\E backendOk \in BOOLEAN : clearMessages(backendOk)) =>
            \A t \in DOMAIN messagesMapRef \ {activeSessionId} :
                MapGet(messagesMapRef', t) = Log(t)
       /\ \A i \in Invs :
            (/\ ChunkStep(i)
             /\ Sid(i) # activeSessionId
             /\ activeSessionId \in DOMAIN messagesMapRef
             /\ Log(activeSessionId) = <<>>
             /\ invocations[i].hist \in {Quiet, Switched}
             /\ Count(Log(Sid(i)), AssistantId(i)) = 1) =>
                \E k \in 1..Len(MapGet(messagesMapRef', Sid(i))) :
                    MapGet(messagesMapRef', Sid(i))[k] =
                        Message(AssistantId(i), "assistant", Concat(invocations'[i].chunks))]_vars

\* C8: only live sessions have a message log in the store.
C8_StoreHoldsLiveSessions == DOMAIN messagesMapRef \subseteq SessionIds(sessions)

\* C9: once the session a stream originated in has been deleted, no further
\* chunk of that invocation is written to the store.
C9_DeleteAbortsStream ==
    [][\A i \in Invs : ChunkStep(i) => Sid(i) \in SessionIds(sessions)]_vars

\* C10: when the response is not ok, the error field becomes a non-empty
\* string, the streaming flag becomes false and no log changes: the user
\* message stays, and it is the last message of an undisturbed send's log.
C10_HttpError ==
    [][\A i \in Invs :
          (invocations[i].pc = "fetch" /\ invocations'[i].pc = "httpError") =>
            /\ error' # <<>>
            /\ error'[1] # ""
            /\ ~isStreaming'
            /\ messagesMapRef' = messagesMapRef
            /\ invocations[i].hist = Quiet =>
                  /\ Len(MapGet(messagesMapRef', Sid(i))) >= 1
                  /\ MapGet(messagesMapRef', Sid(i))[Len(MapGet(messagesMapRef', Sid(i)))]
                        = UserMessageOf(i)]_vars

C10_Witness ==
    \E i \in Invs :
        /\ invocations[i].pc = "httpError"
        /\ error # <<>>
        /\ ~isStreaming
        /\ Count(Log(Sid(i)), UserId(i)) = 1

\* invocation i ends in this step with a failure that is not an abort
Fails(i) ==
    /\ i \in Invs
    /\ InFlight(invocations[i])
    /\ invocations'[i].pc \in {"httpError", "networkError"}

Last(list) == list[Len(list)]

C12_NoPortNoSend ==
    [][\A content \in Texts :
          (apiPort = 0 /\ sendMessage(content, MaxSends)) =>
            /\ error' # <<>>
            /\ error'[1] # ""
            /\ invocations' = invocations
            /\ messagesMapRef' = messagesMapRef
            /\ messages' = messages
            /\ isStreaming' = isStreaming
            /\ abortControllerRef' = abortControllerRef]_vars

\* a send was refused for the missing port while the log was not empty
C12_Witness ==
    /\ apiPort = 0
    /\ error = <<"Sidecar not connected">>
    /\ messages # <<>>
    /\ Log(activeSessionId) = messages
    /\ ~isStreaming

\* stop() reaches invocation i in this step: its signal becomes aborted
Stops(i) ==
    /\ i \in Invs
    /\ ~invocations[i].aborted
    /\ invocations'[i].aborted

\* invocation i observes its abort in this step and ends
AbortEnds(i) ==
    /\ i \in Invs
    /\ InFlight(invocations[i])
    /\ invocations'[i].pc = "abort"

\* C13: a send ended by stop() never sets the error field: neither stop()
\* nor the end of the aborted invocation changes error (null stays null),
\* and the streaming flag is false after each of them, whether the
\* invocation was awaiting the response or reading the body.
C13_AbortSetsNoError ==
    [][\A i \in Invs :
          (Stops(i) \/ AbortEnds(i)) => (error' = error /\ ~isStreaming')]_vars

\* a send was stopped while reading the body and has ended: no error
C13_Witness ==
    \E i \in Invs :
        /\ invocations[i].pc = "abort"
        /\ Len(invocations[i].chunks) >= 1
        /\ error = <<>>
        /\ ~isStreaming

\* C14: stop() keeps everything already written: stop() and the end of the
\* aborted invocation change no log and no content, so the originating log
\* keeps the user message and the assistant message with the chunks appended
\* before the abort (for a send nothing disturbed, the log ends with them).
C14_StopKeepsContent ==
    [][\A i \in Invs :
          (Stops(i) \/ AbortEnds(i)) =>
            /\ messagesMapRef' = messagesMapRef
            /\ messages' = messages
            /\ invocations'[i].chunks = invocations[i].chunks
            /\ (Stops(i) /\ invocations[i].hist = Quiet) =>
                  IF invocations[i].pc = "read"
                  THEN EndsWith(Log(Sid(i)), UserMessageOf(i), FullAssistantOf(i))
                  ELSE Log(Sid(i)) # <<>> /\ Last(Log(Sid(i))) = UserMessageOf(i)]_vars

\* a send was stopped after a chunk and has ended; its log still ends with
\* the user message and the assistant message holding that chunk
C14_Witness ==
    \E i \in Invs :
        /\ invocations[i].pc = "abort"
        /\ Len(invocations[i].chunks) >= 1
        /\ EndsWith(Log(Sid(i)), UserMessageOf(i), FullAssistantOf(i))
        /\ messages = Log(Sid(i))

\* C15: once an invocation has observed its abort, it applies no further
\* chunk: it stays ended and its list of applied chunks grows no more; nor is
\* a chunk applied between stop() and that observation.
C15_NoChunkAfterAbort ==
    [][\A i \in Invs :
          /\ invocations[i].pc = "abort" => invocations'[i].pc = "abort"
          /\ (invocations[i].pc = "abort" \/ invocations[i].aborted) =>
                invocations'[i].chunks = invocations[i].chunks]_vars

\* an invocation ended by an abort after a chunk, with more of the body to come
C15_Witness ==
    \E i \in Invs :
        /\ invocations[i].pc = "abort"
        /\ Len(invocations[i].chunks) >= 1
        /\ TotalChunks(invocations) < MaxChunks

\* no invocation is in flight
Idle == \A i \in Invs : ~InFlight(invocations[i])

\* C16: stop() when no invocation is in flight changes nothing: the flag is
\* already false and the abort handle already null, and the step leaves the
\* logs, the displayed list, the error, the flag and the handle as they were.
C16_StopWhenIdle ==
    /\ [](Idle => (~isStreaming /\ abortControllerRef = 0))
    /\ [][(Idle /\ stopStreaming) =>
            UNCHANGED <<messagesMapRef, messages, error, isStreaming,
                        abortControllerRef, registryVars>>]_vars

\* a stream has finished with an error: a stop() now must leave the error,
\* the log and the flag alone
C16_Witness ==
    /\ Idle
    /\ \E i \in Invs : invocations[i].pc = "networkError" /\ Len(invocations[i].chunks) >= 1
    /\ error # <<>>
    /\ messages # <<>>
    /\ ~isStreaming
    /\ abortControllerRef = 0

C18_ViewShowsActiveLog == messages = Log(activeSessionId)

\* C19: when the active session is deleted and others remain, the session
\* just before it in the list becomes active, or the first one left if it was
\* first; deleting another session leaves the active id as it was.
C19_DeleteFallback ==
    [][\A k \in 1..Len(sessions) :
          (Len(sessions) >= 2 /\ sessions[k].id \notin SessionIds(sessions')) =>
            IF sessions[k].id = activeSessionId
            THEN activeSessionId' = IF k > 1 THEN sessions[k - 1].id ELSE sessions[2].id
            ELSE activeSessionId' = activeSessionId]_vars

\* the active session is not the first and sits right before the place a
\* deleted session had in the list
C19_Witness ==
    \E d \in (1..uuidCount) \ SessionIds(sessions) :
        \E k \in 2..Len(sessions) :
            /\ sessions[k].id = activeSessionId
            /\ sessions[k].id < d
            /\ k < Len(sessions) => sessions[k + 1].id > d

\* C20: createSession appends one session at the tail, leaves the others and
\* their order alone, makes the new one active and gives it a palette colour
\* that differs from the colour of the session that was last.
C20_CreateAppends ==
    [][Len(sessions') = Len(sessions) + 1 =>
          /\ SubSeq(sessions', 1, Len(sessions)) = sessions
          /\ Last(sessions').id \notin SessionIds(sessions)
          /\ activeSessionId' = Last(sessions').id
          /\ Last(sessions').color \in 0..(NumColors - 1)
          /\ Last(sessions').color # Last(sessions).color]_vars

\* the newest session is active and got the colour after the one its index
\* gives, because the session before it already had that one
C20_Witness ==
    /\ Len(sessions) >= 2
    /\ activeSessionId = Last(sessions).id
    /\ sessions[Len(sessions) - 1].color = getColorForIndex(Len(sessions) - 1)
    /\ Last(sessions).color = getColorForIndex(Len(sessions))

\* C21: no two sessions next to each other in the list have the same colour.
C21_NoAdjacentRepeat ==
    \A k \in 1..(Len(sessions) - 1) : sessions[k].color # sessions[k + 1].color

\* C22: deleteSession with an id that is not in the list (one deleted before,
\* or one never handed out) leaves the list, its order and the active session
\* id as they are.
C22_DeleteAbsentIsNoOp ==
    \A id \in (0..(uuidCount + 1)) \ SessionIds(sessions) :
        DeleteResult(sessions, activeSessionId, id, uuidCount + 1)
            = [sessions |-> sessions, active |-> activeSessionId]

\* an id deleted before is absent while several sessions are left and the
\* active one is not the first, so that a fallback would move it
C22_Witness ==
    /\ (1..uuidCount) \ SessionIds(sessions) # {}
    /\ Len(sessions) >= 2
    /\ activeSessionId # sessions[1].id

\* the ways an invocation of sendMessage ends, each through catch and finally
Outcomes == {"ok", "httpError", "networkError", "abort"}

\* C23: every invocation of sendMessage ends, whether its stream completes,
\* fails or is aborted, and when it has ended the streaming flag is false and
\* the abort handle is null; no invocation ends in any other way than through
\* the catch and finally blocks.
C23_ReturnsToIdle ==
    /\ \A i \in 1..MaxSendsWide :
          (i \in Invs /\ InFlight(invocations[i]))
              ~> (/\ i \in Invs
                  /\ invocations[i].pc \in Outcomes
                  /\ ~isStreaming
                  /\ abortControllerRef = 0)
    /\ [](\A i \in Invs : InFlight(invocations[i]) \/ invocations[i].pc \in Outcomes)

\* every outcome has been the end of some invocation, with the flag false and
\* the handle null; here two invocations ended differently
C23_Witness ==
    /\ Len(invocations) = 2
    /\ invocations[1].pc = "abort"
    /\ invocations[2].pc \in Outcomes \ {"abort"}
    /\ ~isStreaming
    /\ abortControllerRef = 0

C25_ClearSwallowsFailure ==
    [][\A backendOk \in BOOLEAN :
          clearMessages(backendOk) =>
              /\ MapGet(messagesMapRef', activeSessionId) = <<>>
              /\ messages' = <<>>
              /\ error' = <<>>]_vars

\* a send failed, which sets the error and leaves the user message in the
\* log; after a clear the log is empty and the error is null again
C25_Witness ==
    \E i \in Invs :
        /\ invocations[i].pc \in {"httpError", "networkError"}
        /\ Log(Sid(i)) = <<>>
        /\ messages = <<>>
        /\ error = <<>>

\* C26: while a send awaits the response headers, and after a response with
\* a status that is not ok, no log and not the displayed list holds an
\* assistant message of that send; while it awaits them, with no clear, stop
\* or other send since it began, its session's log ends with its user message,
\* whatever session is active.
C26_UserMessageBeforeRequest ==
    \A i \in Invs :
        /\ invocations[i].pc \in {"fetch", "httpError"} =>
              /\ \A sid \in DOMAIN messagesMapRef : Count(Log(sid), AssistantId(i)) = 0
              /\ Count(messages, AssistantId(i)) = 0
        /\ (invocations[i].pc = "fetch" /\ invocations[i].hist \in {Quiet, Switched}) =>
              /\ Log(Sid(i)) # <<>>
              /\ Last(Log(Sid(i))) = UserMessageOf(i)

\* a send awaits the headers while another session is shown
C26_Witness ==
    \E i \in Invs :
        /\ invocations[i].pc = "fetch"
        /\ invocations[i].hist = Switched
        /\ activeSessionId # Sid(i)
        /\ Last(Log(Sid(i))) = UserMessageOf(i)

\* C27: the session_id in the body of the /chat/stream request is the id of
\* the session whose log, and no other, got the user message of the send and
\* gets its assistant message when the response arrives, also when another
\* session has become active in between (no clear, stop or other send).
C27_RequestNamesOriginSession ==
    \A i \in Invs :
        LET s == invocations[i].request.session_id
            others == DOMAIN messagesMapRef \ {s}
        IN  invocations[i].hist \in {Quiet, Switched} =>
              /\ invocations[i].pc = "fetch" =>
                    /\ Log(s) # <<>>
                    /\ Last(Log(s)) = UserMessageOf(i)
                    /\ \A t \in others : Count(Log(t), UserId(i)) = 0
              /\ (Streamed(i) /\ invocations[i].chunks = <<>>) =>
                    /\ Log(s) # <<>>
                    /\ Last(Log(s)) = Message(AssistantId(i), "assistant", <<>>)
                    /\ \A t \in others : Count(Log(t), AssistantId(i)) = 0

\* the response arrived while another session was shown, and that session is
\* still shown: the placeholder is in the log of the request's session
C27_Witness ==
    \E i \in Invs :
        /\ Streamed(i)
        /\ invocations[i].chunks = <<>>
        /\ invocations[i].hist = Switched
        /\ activeSessionId # invocations[i].request.session_id
        /\ Count(messages, UserId(i)) = 0
        /\ Count(Log(invocations[i].request.session_id), AssistantId(i)) = 1

\* C28: once a session has been cleared while a stream of it was being read,
\* so that its log is empty, a chunk of that stream leaves the log empty.
C28_ChunksAfterClearAreNoOps ==
    [][\A i \in Invs :
          (/\ ChunkStep(i)
           /\ invocations[i].hist = Disturbed
           /\ Log(Sid(i)) = <<>>) =>
              MapGet(messagesMapRef', Sid(i)) = <<>>]_vars

\* an invocation without the history kept for the claims
Progress(r) == [r EXCEPT !.hist = Quiet]

\* C29: a step that changes the active session id and not the session list,
\* which is a switchSession to another session, leaves every log in the store,
\* the streaming flag, the error, the abort handle and every invocation as they
\* were, also with a stream in flight; switchSession to the active session
\* changes nothing, the list shown included.
C29_SwitchChangesActiveOnly ==
    /\ [][(activeSessionId' # activeSessionId /\ sessions' = sessions) =>
            /\ messagesMapRef' = messagesMapRef
            /\ UNCHANGED <<uuidCount, apiPort, isStreaming, error, abortControllerRef>>
            /\ Len(invocations') = Len(invocations)
            /\ \A i \in Invs : Progress(invocations'[i]) = Progress(invocations[i])]_vars
    /\ [][switchSession(activeSessionId) => UNCHANGED vars]_vars

\* a stream has delivered a chunk and is still being read while another
\* session is shown: its log holds what it held before the switch
C29_Witness ==
    \E i \in Invs :
        /\ invocations[i].pc = "read"
        /\ Len(invocations[i].chunks) >= 1
        /\ invocations[i].hist = Switched
        /\ activeSessionId # Sid(i)
        /\ EndsWith(Log(Sid(i)), UserMessageOf(i), FullAssistantOf(i))
        /\ messages # Log(Sid(i))

\* C30: a chunk of a stream that began in session A, applied while another
\* session B is shown, changes neither the list shown nor B's log in the store.
C30_ChunkLeavesVisibleSession ==
    [][\A i \in Invs :
          (ChunkStep(i) /\ Sid(i) # activeSessionId) =>
              /\ messages' = messages
              /\ MapGet(messagesMapRef', activeSessionId) = Log(activeSessionId)]_vars

Unstopped == {i \in Invs : InFlight(invocations[i]) /\ ~invocations[i].aborted}

\* the most recently started of a set of invocations
MostRecent(S) == CHOOSE i \in S : \A j \in S : j <= i

C33_ActiveIsListed ==
    activeSessionId \in SessionIds(sessions)

\* the session created last has been deleted, others are left and the active
\* one is not the first of them
C33_Witness ==
    /\ uuidCount \notin SessionIds(sessions)
    /\ Len(sessions) >= 2
    /\ activeSessionId \in SessionIds(sessions) \ {sessions[1].id}

\* the error a send rejected for the missing port leaves; every send that
\* passes the port check resets the error, so while this one is shown no send
\* has passed since
Rejected == error = <<"Sidecar not connected">>

C35_ReadyIsReported ==
    (setup.pc = "done" /\ backend.status = "ready") =>
        (state.isReady /\ state.port = backend.port)

\* C36: in the sidecar hook, port is non-null exactly when isReady is true,
\* and isReady implies that error is null.
C36_PortIffReady ==
    /\ state.port # 0 <=> state.isReady
    /\ state.isReady => state.error = <<>>

\* get_sidecar_status was rejected with a startup error, which the hook
\* reported, and a later sidecar-ready event has made it ready
C36_Witness ==
    /\ setup.pc = "done"
    /\ setup.reply.error = SidecarFailure
    /\ state.isReady
    /\ state.port \in SidecarPorts
    /\ state.error = <<>>
====
